---- MODULE Spec2Model ----
(***************************************************************************)
(* Model of the snapshot manager of playwright_local_agent_poc:            *)
(*   snapshot_parser.py        parse_snapshot, iter_nodes,                 *)
(*                             ancestors_with_context, first_salient_text  *)
(*   transform_with_context.py build_context_model, trim_for_llm           *)
(*   nodebased_chunking.py     find_chunk_roots, serialize_subtree,        *)
(*                             make_chunks                                 *)
(*                                                                         *)
(* Python str values are TLA+ strings (Len, \o and SubSeq act on them as   *)
(* on character sequences).  A Python "X | None" value is a sequence of    *)
(* zero or one element.  id(node) is the node's index in the sequence      *)
(* `nodes`; the synthetic root is index 1.                                 *)
(***************************************************************************)
EXTENDS Integers, Sequences, FiniteSets, TLC

VARIABLES
  nodes,    \* the Node objects created so far; nodes[1] is the synthetic root
  stack,    \* parse_snapshot's open-node stack (node indices, top last)
  nlines,   \* number of snapshot lines consumed by parse_snapshot's loop
  pc,       \* position: "parsing", "parsed", "built", "chunked", "trimmed"
  model,    \* result of build_context_model (sections, item_map, loop log)
  chunks,   \* result of make_chunks
  budget,   \* the max_tokens_per_chunk argument of make_chunks
  task,     \* the task argument of trim_for_llm
  limits,   \* <<max_sections, max_items, max_actions>> of trim_for_llm
  trimmed   \* result["sections"] of trim_for_llm

vars == <<nodes, stack, nlines, pc, model, chunks, budget, task, limits, trimmed>>

-----------------------------------------------------------------------------
(* Bounds of the model *)

MaxLinesParse == 4
MaxLinesBuild == 4
MaxLinesContainer == 3
MaxLinesSalient == 3
MaxLinesChunk == 3
MaxLinesTrim == 3
MaxLinesAttr == 3
MaxLinesSection == 5
MaxBudget == 2
MaxLimit == 2

-----------------------------------------------------------------------------
(* Optional values and characters *)

None == <<>>
Some(v) == <<v>>
\* Python truthiness of a "str | None" value
Truthy(o) == o # None /\ o[1] # ""
\* Python "o or dflt"
OrElse(o, dflt) == IF Truthy(o) THEN o[1] ELSE dflt

\* s[i-1:i]: the i-th character, "" outside the string
Ch(s, i) == IF 1 <= i /\ i <= Len(s) THEN SubSeq(s, i, i) ELSE ""

Letters ==
  {"a","b","c","d","e","f","g","h","i","j","k","l","m","n","o","p","q","r","s",
   "t","u","v","w","x","y","z","A","B","C","D","E","F","G","H","I","J","K","L",
   "M","N","O","P","Q","R","S","T","U","V","W","X","Y","Z"}
Digits == {"0","1","2","3","4","5","6","7","8","9"}
\* the characters \s matches
Spaces == {" ", "\t", "\n", "\r", "\f"}

\* number of leading characters of s, from position i on, that lie in set cs
RECURSIVE RunLen(_, _, _)
RunLen(s, i, cs) ==
  IF i <= Len(s) /\ Ch(s, i) \in cs THEN 1 + RunLen(s, i + 1, cs) ELSE 0

\* s[i:] (1-based i)
From(s, i) == SubSeq(s, i, Len(s))

StartsWith(s, p) == Len(s) >= Len(p) /\ SubSeq(s, 1, Len(p)) = p

\* least position >= i at which p occurs in s, or 0 (str.find / re.search of a literal)
RECURSIVE Find(_, _, _)
Find(s, p, i) ==
  IF i + Len(p) - 1 > Len(s) THEN 0
  ELSE IF SubSeq(s, i, i + Len(p) - 1) = p THEN i
  ELSE Find(s, p, i + 1)

Contains(s, p) == Find(s, p, 1) # 0

\* str.strip()
RECURSIVE RStrip(_)
RStrip(s) ==
  IF Len(s) > 0 /\ Ch(s, Len(s)) \in Spaces THEN RStrip(SubSeq(s, 1, Len(s) - 1)) ELSE s
LStrip(s) == From(s, RunLen(s, 1, Spaces) + 1)
Strip(s) == RStrip(LStrip(s))

-----------------------------------------------------------------------------
(* snapshot_parser.py: the regular expressions *)

\* LINE_RE = ^(?P<indent>\s*)-\s+(?P<body>.*)$   ; None when the line does not match
LINE_RE(line) ==
  LET k == RunLen(line, 1, Spaces)
      w == RunLen(line, k + 2, Spaces)
  IN IF Ch(line, k + 1) = "-" /\ w >= 1
       THEN Some([indent |-> SubSeq(line, 1, k), body |-> From(line, k + 2 + w)])
       ELSE None

\* ROLE_RE = ^(?P<role>[a-zA-Z_]+)\b
ROLE_RE(body) ==
  LET r == RunLen(body, 1, Letters \cup {"_"})
  IN IF r >= 1 /\ (r = Len(body) \/ Ch(body, r + 1) \notin Digits)
       THEN Some(SubSeq(body, 1, r))
       ELSE None

\* NAME_RE = "(?P<name>.*?)"   (search)
NAME_RE(body) ==
  LET q1 == Find(body, "\"", 1)
      q2 == IF q1 = 0 THEN 0 ELSE Find(body, "\"", q1 + 1)
  IN IF q2 # 0 THEN Some(SubSeq(body, q1 + 1, q2 - 1)) ELSE None

\* REF_RE = \[ref=(?P<ref>e\d+)\]   (search, from position i on)
RECURSIVE REF_RE_from(_, _)
REF_RE_from(body, i) ==
  LET p == Find(body, "[ref=e", i)
      d == RunLen(body, p + 6, Digits)
  IN IF p = 0 THEN None
     ELSE IF d >= 1 /\ Ch(body, p + 6 + d) = "]"
       THEN Some(SubSeq(body, p + 5, p + 5 + d))
       ELSE REF_RE_from(body, p + 1)
REF_RE(body) == REF_RE_from(body, 1)

\* DISABLED_RE = \[disabled\]   (search)
DISABLED_RE(body) == Contains(body, "[disabled]")

\* URL_RE = ^/url:\s*(?P<url>\S+)\s*$
URL_RE(body) ==
  LET rest == From(body, 6)
      s == RunLen(rest, 1, Spaces)
      u == RunLen(rest, s + 1, {Ch(rest, i) : i \in 1..Len(rest)} \ Spaces)
      t == RunLen(rest, s + u + 1, Spaces)
  IN IF StartsWith(body, "/url:") /\ u >= 1 /\ s + u + t = Len(rest)
       THEN Some(SubSeq(rest, s + 1, s + u))
       ELSE None

\* TEXT_KV_RE = ^text:\s*(?P<text>.*)$
TEXT_KV_RE(body) ==
  LET rest == From(body, 6)
  IN IF StartsWith(body, "text:") THEN Some(LStrip(rest)) ELSE None

-----------------------------------------------------------------------------
(* snapshot_parser.py: Node and parse_snapshot *)

\* Node(raw, indent, role, name, ref, disabled, attrs, children); attrs holds the
\* optional keys "url" (None when absent) and "texts" (<<>> when absent: the
\* list is created by setdefault and appended to in the same statement)
Node(raw, indent, role, name, ref, disabled) ==
  [raw |-> raw, indent |-> indent, role |-> role, name |-> name, ref |-> ref,
   disabled |-> disabled, attrs |-> [url |-> None, texts |-> <<>>],
   children |-> <<>>]

\* root = Node(raw="ROOT", indent=-1, role="root")
RootNode == Node("ROOT", -1, "root", None, None, FALSE)
Root == 1

\* the node a body line creates (role, name, ref, disabled extracted by the regexes)
NewNode(body, indent) ==
  Node(body, indent,
       IF ROLE_RE(body) # None THEN ROLE_RE(body)[1] ELSE "unknown",
       NAME_RE(body), REF_RE(body), DISABLED_RE(body))

Top(stk) == stk[Len(stk)]
Pop(stk) == SubSeq(stk, 1, Len(stk) - 1)

\* a pop condition that lets a line of equal indentation nest under the top
RECURSIVE PopStack_Strict(_, _, _)
PopStack_Strict(stk, nds, indent) ==
  IF stk # <<>> /\ indent < nds[Top(stk)].indent
    THEN PopStack_Strict(Pop(stk), nds, indent)
    ELSE stk

\* while stack and indent <= stack[-1].indent: stack.pop()
RECURSIVE PopStack(_, _, _)
PopStack(stk, nds, indent) ==
  IF stk # <<>> /\ indent <= nds[Top(stk)].indent
    THEN PopStack(Pop(stk), nds, indent)
    ELSE stk

\* a parser that forgets to open the node it has just attached
PushNode_Forgotten(stk, id) == stk

\* stack.append(node)
PushNode(stk, id) == Append(stk, id)

\* stack[-1].attrs["url"] = urlm.group("url")
SetUrl(nds, id, url) ==
  [nds EXCEPT ![id].attrs.url = Some(url)]

\* stack[-1].attrs.setdefault("texts", []).append(textm.group("text"))
AddText(nds, id, text) ==
  [nds EXCEPT ![id].attrs.texts = Append(@, text)]

\* stack[-1].add_child(node)
AddChild(nds, parent, node) ==
  LET id == Len(nds) + 1
  IN Append([nds EXCEPT ![parent].children = Append(@, id)], node)

\* One iteration of "for line in snapshot_text.splitlines()": the state
\* [nodes, stack, error] after the line; error is set where stack[-1] raises
\* IndexError on an empty stack.
ParseStep(nds, stk, line) ==
  LET m == LINE_RE(line)
      indent == Len(m[1].indent)
      body == Strip(m[1].body)
      popped == PopStack(stk, nds, indent)
  IN IF m = None THEN [nodes |-> nds, stack |-> stk, error |-> FALSE]
     ELSE IF URL_RE(body) # None
       THEN [nodes |-> SetUrl(nds, Top(stk), URL_RE(body)[1]), stack |-> stk,
             error |-> FALSE]
     ELSE IF TEXT_KV_RE(body) # None
       THEN [nodes |-> AddText(nds, Top(stk), TEXT_KV_RE(body)[1]), stack |-> stk,
             error |-> FALSE]
     ELSE IF popped = <<>>
       THEN [nodes |-> nds, stack |-> popped, error |-> TRUE]
     ELSE [nodes |-> AddChild(nds, Top(popped), NewNode(body, indent)),
           stack |-> PushNode(popped, Len(nds) + 1), error |-> FALSE]

\* the text of a bulleted snapshot line
RECURSIVE Blanks(_)
Blanks(n) == IF n = 0 THEN "" ELSE " " \o Blanks(n - 1)
Bullet(indent, body) == Blanks(indent) \o "- " \o body

-----------------------------------------------------------------------------
(* snapshot_parser.py: role sets and tree walks *)

INTERACTIVE_ROLES ==
  {"button", "link", "combobox", "textbox", "searchbox", "checkbox", "radio",
   "option", "menuitem", "tab"}
LANDMARK_ROLES == {"main", "navigation", "contentinfo"}
REPEATER_ITEM_ROLES == {"row", "listitem", "group"}
HEADING_ROLE == "heading"

Reverse(q) == [i \in 1..Len(q) |-> q[Len(q) + 1 - i]]

\* iter_nodes: pop a node, emit it, push its children reversed (pre-order)
RECURSIVE IterWalk(_, _, _)
IterWalk(nds, stk, out) ==
  IF stk = <<>> THEN out
  ELSE LET n == Top(stk)
       IN IterWalk(nds, Pop(stk) \o Reverse(nds[n].children), Append(out, n))
iter_nodes(nds, root) == IterWalk(nds, <<root>>, <<>>)

\* chains[id(c)] = chains[id(n)] + [n] for every child c of the popped node n
RECURSIVE SetChains(_, _, _, _)
SetChains(chains, kids, k, chain) ==
  IF k > Len(kids) THEN chains
  ELSE SetChains([chains EXCEPT ![kids[k]] = chain], kids, k + 1, chain)

RECURSIVE AncWalk(_, _, _)
AncWalk(nds, stk, chains) ==
  IF stk = <<>> THEN chains
  ELSE LET n == Top(stk)
       IN AncWalk(nds, Pop(stk) \o nds[n].children,
                  SetChains(chains, nds[n].children, 1, Append(chains[n], n)))

\* ancestors_with_context: id(node) -> ancestors, root first, parent last
ancestors_with_context(nds, root) ==
  AncWalk(nds, <<root>>, [id \in 1..Len(nds) |-> <<>>])

\* " ".join(texts) and "_".join(hp)
RECURSIVE Join(_, _)
Join(sep, parts) ==
  IF parts = <<>> THEN ""
  ELSE IF Len(parts) = 1 THEN parts[1]
  ELSE parts[1] \o sep \o Join(sep, Tail(parts))

\* s[:n]
Prefix(s, n) == SubSeq(s, 1, IF Len(s) < n THEN Len(s) ELSE n)

max_len == 80

\* the loop of first_salient_text over iter_nodes(container), from position k on
RECURSIVE SalientScan(_, _, _, _)
SalientScan(nds, order, k, fallback) ==
  IF k > Len(order) THEN fallback
  ELSE LET n == nds[order[k]]
           t == Strip(Join(" ", n.attrs.texts))
       IN IF n.role \in {"heading", "link"} /\ Truthy(n.name)
            THEN Prefix(n.name[1], max_len)
          ELSE IF n.attrs.texts # <<>> /\ t # ""
            THEN Prefix(t, max_len)
          ELSE IF n.role = "emphasis" /\ n.attrs.texts # <<>> /\ t # ""
            THEN Prefix(t, max_len)
          ELSE SalientScan(nds, order, k + 1, fallback)

\* first_salient_text(container)
first_salient_text(nds, container) ==
  SalientScan(nds, iter_nodes(nds, container), 1,
              nds[container].role \o ":" \o OrElse(nds[container].ref, "no-ref"))

-----------------------------------------------------------------------------
(* transform_with_context.py: build_context_model *)

\* hp = [a.name for a in ancs if a.role == HEADING_ROLE and a.name]; hp[-3:]
RECURSIVE HeadingNames(_, _)
HeadingNames(nds, ancs) ==
  IF ancs = <<>> THEN <<>>
  ELSE LET a == nds[Head(ancs)]
       IN (IF a.role = HEADING_ROLE /\ Truthy(a.name) THEN <<a.name[1]>> ELSE <<>>)
            \o HeadingNames(nds, Tail(ancs))
Last3(q) == IF Len(q) <= 3 THEN q ELSE SubSeq(q, Len(q) - 2, Len(q))
heading_path_for(nds, ancs) == Last3(HeadingNames(nds, ancs))

\* the nearest ancestor (scanning from the parent outwards) with a role in
\* `roles`; 0 stands for None
RECURSIVE NearestWithRole(_, _, _)
NearestWithRole(nds, ancs, roles) ==
  IF ancs = <<>> THEN 0
  ELSE IF nds[Top(ancs)].role \in roles THEN Top(ancs)
  ELSE NearestWithRole(nds, Pop(ancs), roles)
nearest_landmark(nds, ancs) == NearestWithRole(nds, ancs, LANDMARK_ROLES)
nearest_item_container(nds, ancs) == NearestWithRole(nds, ancs, REPEATER_ITEM_ROLES)

\* a filter that forgets "if not n.ref: continue"
Qualifies_NoRefCheck(n) == n.role \in INTERACTIVE_ROLES

\* the nodes the loop does not skip: interactive role and a truthy ref
Qualifies(n) == n.role \in INTERACTIVE_ROLES /\ Truthy(n.ref)

\* f"s_{section_landmark}_{'_'.join(hp) if hp else 'noheading'}"
SectionId(section_landmark, hp) ==
  "s_" \o section_landmark \o "_" \o (IF hp # <<>> THEN Join("_", hp) ELSE "noheading")

\* a fallback that takes the most distant ancestor below root instead of the parent
ItemContainer_TopLevel(nds, ancs, lm) ==
  IF nearest_item_container(nds, ancs) # 0 THEN nearest_item_container(nds, ancs)
  ELSE IF lm # 0 THEN lm
  ELSE IF Len(ancs) >= 2 THEN ancs[2]
  ELSE Root

\* nearest_item_container(ancs) or (lm if lm else ancs[-1] if ancs else root)
ItemContainer(nds, ancs, lm) ==
  IF nearest_item_container(nds, ancs) # 0 THEN nearest_item_container(nds, ancs)
  ELSE IF lm # 0 THEN lm
  ELSE IF ancs # <<>> THEN Top(ancs)
  ELSE Root

\* position of the section with this id in the dict `sections`, 0 if absent
RECURSIVE SectionIndex(_, _, _)
SectionIndex(sections, section_id, k) ==
  IF k > Len(sections) THEN 0
  ELSE IF sections[k].section_id = section_id THEN k
  ELSE SectionIndex(sections, section_id, k + 1)

\* an item_map in which no key is ever found again
ItemIndex_NeverFound(item_map, key, k) == 0

\* position of the key (section_id, id(item_container)) in item_map, 0 if absent
RECURSIVE ItemIndex(_, _, _)
ItemIndex(item_map, key, k) ==
  IF k > Len(item_map) THEN 0
  ELSE IF item_map[k].key = key THEN k
  ELSE ItemIndex(item_map, key, k + 1)

\* the Action dict of node n
ActionOf(n, action_id) ==
  [action_id |-> action_id, role |-> n.role, name |-> OrElse(n.name, ""),
   ref |-> n.ref, disabled |-> n.disabled, url |-> n.attrs.url]

\* One iteration of "for n in iter_nodes(root)" on node id, past the two
\* "continue" filters.  st.sections is the dict of sections in insertion order;
\* st.item_map lists the keys of item_map in insertion order with the place
\* (sec, pos) of the item object each refers to; st.log records, per iteration,
\* the locals id(n), section_id, id(item_container), item_id, action_id.
BuildStep(nds, chains, st, id) ==
  LET n == nds[id]
      ancs == chains[id]
      lm == nearest_landmark(nds, ancs)
      section_landmark == IF lm # 0 THEN nds[lm].role ELSE "unknown"
      hp == heading_path_for(nds, ancs)
      section_id == SectionId(section_landmark, hp)
      secs1 == IF SectionIndex(st.sections, section_id, 1) = 0
                 THEN Append(st.sections,
                             [section_id |-> section_id, landmark |-> section_landmark,
                              heading_path |-> hp, items |-> <<>>])
                 ELSE st.sections
      sec == SectionIndex(secs1, section_id, 1)
      item_container == ItemContainer(nds, ancs, lm)
      item_key == first_salient_text(nds, item_container)
      item_key_id == <<section_id, item_container>>
      found == ItemIndex(st.item_map, item_key_id, 1)
      item == [item_id |-> section_id \o "/i" \o ToString(Len(st.item_map)),
               item_key |-> item_key,
               container_role |-> nds[item_container].role,
               actions |-> <<>>]
      map1 == IF found = 0
                THEN Append(st.item_map,
                            [key |-> item_key_id, sec |-> sec,
                             pos |-> Len(secs1[sec].items) + 1])
                ELSE st.item_map
      secs2 == IF found = 0
                 THEN [secs1 EXCEPT ![sec].items = Append(@, item)]
                 ELSE secs1
      at == map1[IF found = 0 THEN Len(map1) ELSE found]
      cur == secs2[at.sec].items[at.pos]
      action == ActionOf(n, cur.item_id \o "/a" \o ToString(Len(cur.actions)))
  IN [sections |-> [secs2 EXCEPT ![at.sec].items[at.pos].actions = Append(@, action)],
      item_map |-> map1,
      log |-> Append(st.log,
                     [node |-> id, section_id |-> section_id,
                      container |-> item_container, item_id |-> cur.item_id,
                      action_id |-> action.action_id])]

RECURSIVE BuildLoop(_, _, _, _, _)
BuildLoop(nds, chains, order, k, st) ==
  IF k > Len(order) THEN st
  ELSE BuildLoop(nds, chains, order, k + 1,
                 IF Qualifies(nds[order[k]])
                   THEN BuildStep(nds, chains, st, order[k])
                   ELSE st)

\* build_context_model on the parsed tree
build_context_model(nds) ==
  BuildLoop(nds, ancestors_with_context(nds, Root), iter_nodes(nds, Root), 1,
            [sections |-> <<>>, item_map |-> <<>>, log |-> <<>>])

-----------------------------------------------------------------------------
(* nodebased_chunking.py *)

CHUNK_ROOT_ROLES == {"main", "navigation", "contentinfo", "rowgroup", "list"}

Max(a, b) == IF a >= b THEN a ELSE b

\* max(1, len(text) // 4)
estimate_tokens(text) == Max(1, Len(text) \div 4)

max_lines == 5000

\* the line serialize_subtree writes for node n at the given depth
SerializeLine(n, depth) ==
  Blanks(2 * depth) \o "- " \o n.role
    \o (IF Truthy(n.name) THEN " \"" \o n.name[1] \o "\"" ELSE "")
    \o (IF Truthy(n.ref) THEN " [ref=" \o n.ref[1] \o "]" ELSE "")
    \o (IF n.disabled THEN " [disabled]" ELSE "")
    \o (IF n.attrs.url # None THEN " /url=" \o n.attrs.url[1] ELSE "")

\* for c in reversed(n.children): stack.append((c, depth + 1))
PushChildren(stk, kids, depth) ==
  stk \o [i \in 1..Len(kids) |-> <<Reverse(kids)[i], depth>>]

RECURSIVE SerializeWalk(_, _, _)
SerializeWalk(nds, stk, lines) ==
  IF stk = <<>> \/ Len(lines) >= max_lines THEN lines
  ELSE LET n == Top(stk)[1]
           depth == Top(stk)[2]
       IN SerializeWalk(nds, PushChildren(Pop(stk), nds[n].children, depth + 1),
                        Append(lines, SerializeLine(nds[n], depth)))

\* serialize_subtree(node)
serialize_subtree(nds, node) == Join("\n", SerializeWalk(nds, <<<<node, 0>>>>, <<>>))

\* [n for n in order if n in keep], order kept
SelectIds(order, keep) == SelectSeq(order, LAMBDA id : id \in keep)

\* find_chunk_roots: the chunk-root nodes in pre-order, then a stable sort that
\* puts main/navigation/contentinfo (rank 0) before the others (rank 1)
find_chunk_roots(nds) ==
  LET all == 1..Len(nds)
      roots == SelectIds(iter_nodes(nds, Root),
                         {id \in all : nds[id].role \in CHUNK_ROOT_ROLES /\ id # Root})
      rank0 == {id \in all : nds[id].role \in {"main", "navigation", "contentinfo"}}
  IN SelectIds(roots, rank0) \o SelectIds(roots, all \ rank0)

\* a slice one token too long
SliceText_TooLong(text, max_tokens_per_chunk) ==
  Prefix(text, (max_tokens_per_chunk + 1) * 4)

\* child_text[: max_tokens_per_chunk * 4], for a budget >= 0
SliceText(text, max_tokens_per_chunk) == Prefix(text, max_tokens_per_chunk * 4)

\* the chunk emitted for child j (0-based) of chunk root cr with index idx
ChildChunk(nds, cr, idx, j, max_tokens_per_chunk) ==
  LET child == nds[cr].children[j + 1]
      child_text == serialize_subtree(nds, child)
      root_role == nds[cr].role \o ":" \o nds[child].role
  IN IF estimate_tokens(child_text) <= max_tokens_per_chunk
       THEN [chunk_id |-> "ch" \o ToString(idx) \o "_" \o ToString(j),
             root_role |-> root_role, text |-> child_text]
       ELSE [chunk_id |-> "ch" \o ToString(idx) \o "_" \o ToString(j) \o "_slice",
             root_role |-> root_role,
             text |-> SliceText(child_text, max_tokens_per_chunk)]

\* the chunks emitted for chunk root cr with index idx (0-based, from enumerate)
RootChunks(nds, cr, idx, max_tokens_per_chunk) ==
  LET text == serialize_subtree(nds, cr)
  IN IF estimate_tokens(text) <= max_tokens_per_chunk
       THEN <<[chunk_id |-> "ch" \o ToString(idx), root_role |-> nds[cr].role,
               text |-> text]>>
       ELSE [j \in 1..Len(nds[cr].children) |->
               ChildChunk(nds, cr, idx, j - 1, max_tokens_per_chunk)]

\* make_chunks on the parsed tree
make_chunks(nds, max_tokens_per_chunk) ==
  LET chunk_roots == find_chunk_roots(nds)
      F[k \in 0..Len(chunk_roots)] ==
        IF k = 0 THEN <<>>
        ELSE F[k - 1] \o RootChunks(nds, chunk_roots[k], k - 1, max_tokens_per_chunk)
  IN F[Len(chunk_roots)]

-----------------------------------------------------------------------------
(* transform_with_context.py: trim_for_llm *)

Upper == <<"A","B","C","D","E","F","G","H","I","J","K","L","M","N","O","P","Q","R",
           "S","T","U","V","W","X","Y","Z">>
Lower == <<"a","b","c","d","e","f","g","h","i","j","k","l","m","n","o","p","q","r",
           "s","t","u","v","w","x","y","z">>

LowerCh(c) ==
  IF \E i \in 1..26 : Upper[i] = c THEN Lower[CHOOSE i \in 1..26 : Upper[i] = c] ELSE c

\* str.lower()
RECURSIVE lower(_)
lower(s) == IF s = "" THEN "" ELSE LowerCh(Ch(s, 1)) \o lower(From(s, 2))

\* re.findall(r"[a-zA-Z0-9]+", text) from position i on, as a set
RECURSIVE FindWords(_, _)
FindWords(text, i) ==
  LET r == RunLen(text, i, Letters \cup Digits)
  IN IF i > Len(text) THEN {}
     ELSE IF r = 0 THEN FindWords(text, i + 1)
     ELSE {SubSeq(text, i, i + r - 1)} \cup FindWords(text, i + r)

\* kw = {w.lower() for w in re.findall(...) if len(w) > 2}
Keywords(t) == {lower(w) : w \in {x \in FindWords(t, 1) : Len(x) > 2}}

\* sum(1 for k in kw if k in s.lower())
score_text(kw, s) == Cardinality({k \in kw : Contains(lower(s), k)})

\* an ascending sort (reverse=True forgotten)
RECURSIVE SortedReverse_Ascending(_)
SortedReverse_Ascending(scores) ==
  IF scores = <<>> THEN <<>>
  ELSE LET n == Len(scores)
           rest == SortedReverse_Ascending(SubSeq(scores, 1, n - 1))
           before == SelectSeq(rest, LAMBDA i : scores[i] <= scores[n])
           after == SelectSeq(rest, LAMBDA i : scores[i] > scores[n])
       IN before \o <<n>> \o after

\* sorted(...)[::-1] in place of sorted(..., reverse=True): ties come out reversed
SortedReverse_TiesFlipped(scores) == Reverse(SortedReverse_Ascending(scores))

\* sorted(xs, key=score, reverse=True) as the order of the positions of xs:
\* descending by score, equal scores in their original order (the sort is stable)
RECURSIVE SortedReverse(_)
SortedReverse(scores) ==
  IF scores = <<>> THEN <<>>
  ELSE LET n == Len(scores)
           rest == SortedReverse(SubSeq(scores, 1, n - 1))
           before == SelectSeq(rest, LAMBDA i : scores[i] >= scores[n])
           after == SelectSeq(rest, LAMBDA i : scores[i] < scores[n])
       IN before \o <<n>> \o after

\* sorted(xs, key=..., reverse=True)[:max_n] for max_n >= 0
TopN(xs, scores, max_n) ==
  LET order == Prefix(SortedReverse(scores), max_n)
  IN [i \in 1..Len(order) |-> xs[order[i]]]

\* a.get("name", "") + " " + a.get("url", "")
ActionText(a) == a.name \o " " \o (IF a.url # None THEN a.url[1] ELSE "")

TrimItem(kw, it, max_actions) ==
  [it EXCEPT !.actions =
     TopN(it.actions,
          [i \in 1..Len(it.actions) |-> score_text(kw, ActionText(it.actions[i]))],
          max_actions)]

TrimSection(kw, sec, max_items, max_actions) ==
  LET kept == TopN(sec.items,
                   [i \in 1..Len(sec.items) |-> score_text(kw, sec.items[i].item_key)],
                   max_items)
  IN [sec EXCEPT !.items = [i \in 1..Len(kept) |-> TrimItem(kw, kept[i], max_actions)]]

\* trim_for_llm(model, task, max_sections, max_items, max_actions)["sections"]
trim_for_llm(sections, t, max_sections, max_items, max_actions) ==
  LET kw == Keywords(t)
      kept == TopN(sections,
                   [i \in 1..Len(sections) |->
                      score_text(kw, Join(" ", sections[i].heading_path))],
                   max_sections)
  IN [i \in 1..Len(kept) |-> TrimSection(kw, kept[i], max_items, max_actions)]

-----------------------------------------------------------------------------
(* The state machine *)

Init ==
  /\ nodes = <<RootNode>>
  /\ stack = <<Root>>
  /\ nlines = 0
  /\ pc = "parsing"
  /\ model = <<>>
  /\ chunks = <<>>
  /\ budget = 0
  /\ task = ""
  /\ limits = <<0, 0, 0>>
  /\ trimmed = <<>>

\* parse_snapshot's loop body on the next line of the input, any line of `lines`
ParseLine(lines, maxLines) ==
  /\ pc = "parsing"
  /\ nlines < maxLines
  /\ \E line \in lines :
       LET r == ParseStep(nodes, stack, line)
       IN /\ nodes' = r.nodes
          /\ stack' = r.stack
          /\ pc' = IF r.error THEN "IndexError" ELSE "parsing"
  /\ nlines' = nlines + 1
  /\ UNCHANGED <<model, chunks, budget, task, limits, trimmed>>

\* the input is exhausted: return root
ParseReturn ==
  /\ pc = "parsing"
  /\ pc' = "parsed"
  /\ UNCHANGED <<nodes, stack, nlines, model, chunks, budget, task, limits, trimmed>>

\* inputs of the parser runs: node, attribute and non-bulleted lines at three
\* indentations
ParseLines ==
  {Bullet(i, b) : i \in {0, 1, 2}, b \in {"link \"A\" [ref=e1]", "/url: u", "text: t"}}
    \cup {"no bullet"}

NextParse == ParseLine(ParseLines, MaxLinesParse) \/ ParseReturn
SpecParse == Init /\ [][NextParse]_vars

\* build_context_model(snapshot_text), after its call of parse_snapshot returned
BuildContextModel ==
  /\ pc = "parsed"
  /\ model' = build_context_model(nodes)
  /\ pc' = "built"
  /\ UNCHANGED <<nodes, stack, nlines, chunks, budget, task, limits, trimmed>>

\* inputs of the context-model runs: an interactive node with a ref, one
\* without, a repeater container carrying a ref, and a named heading
BuildLines ==
  {Bullet(i, b) : i \in {0, 1, 2},
                  b \in {"button \"A\" [ref=e1]", "link", "row [ref=e3]", "heading \"H\""}}

NextBuild == ParseLine(BuildLines, MaxLinesBuild) \/ ParseReturn \/ BuildContextModel
SpecBuild == Init /\ [][NextBuild]_vars

\* inputs of the container-selection runs: repeater, landmark, plain and
\* interactive nodes
ContainerLines ==
  {Bullet(i, b) : i \in {0, 1, 2},
                  b \in {"button [ref=e1]", "row", "main", "generic"}}

NextContainer ==
  ParseLine(ContainerLines, MaxLinesContainer) \/ ParseReturn \/ BuildContextModel
SpecContainer == Init /\ [][NextContainer]_vars

\* make_chunks(snapshot_text, max_tokens_per_chunk), after its parse_snapshot
MakeChunks ==
  /\ pc = "parsed"
  /\ \E m \in 0..MaxBudget :
       /\ budget' = m
       /\ chunks' = make_chunks(nodes, m)
  /\ pc' = "chunked"
  /\ UNCHANGED <<nodes, stack, nlines, model, task, limits, trimmed>>

\* inputs of the chunking runs: chunk roots with short and long serializations,
\* a node with name, ref, disabled flag, and a url attribute line
ChunkLines ==
  {Bullet(i, b) : i \in {0, 1, 2},
                  b \in {"main", "navigation", "list", "link \"A\" [ref=e1] [disabled]",
                         "/url: u"}}

NextChunk == ParseLine(ChunkLines, MaxLinesChunk) \/ ParseReturn \/ MakeChunks
SpecChunk == Init /\ [][NextChunk]_vars

Tasks == {"panel", "Help: panel!"}

\* trim_for_llm(model, task, max_sections, max_items, max_actions)
TrimForLlm ==
  /\ pc = "built"
  /\ \E t \in Tasks : \E ms, mi, ma \in 0..MaxLimit :
       /\ task' = t
       /\ limits' = <<ms, mi, ma>>
       /\ trimmed' = trim_for_llm(model.sections, t, ms, mi, ma)
  /\ pc' = "trimmed"
  /\ UNCHANGED <<nodes, stack, nlines, model, chunks, budget>>

\* inputs of the trimming runs: top-level headings and rows, and named links at
\* the top level and below them
TrimLines ==
  {Bullet(0, b) : b \in {"heading \"Panel Settings\"", "row"}}
    \cup {Bullet(i, b) : i \in {0, 1},
                         b \in {"link \"Panel\" [ref=e1]", "link \"Help\" [ref=e2]"}}

NextTrim ==
  ParseLine(TrimLines, MaxLinesTrim) \/ ParseReturn \/ BuildContextModel \/ TrimForLlm
SpecTrim == Init /\ [][NextTrim]_vars

\* inputs of the salient-text runs: containers with text attributes and named links
SalientLines ==
  {Bullet(i, b) : i \in {0, 1},
                  b \in {"row", "link \"Docs\" [ref=e2]", "text: foo", "button [ref=e1]"}}

NextSalient ==
  ParseLine(SalientLines, MaxLinesSalient) \/ ParseReturn \/ BuildContextModel
SpecSalient == Init /\ [][NextSalient]_vars

\* inputs of the attribute-line runs: a node line, url lines with values with
\* and without inner whitespace, and a text line, at several indentations
AttrLines ==
  {Bullet(i, "link \"A\" [ref=e1]") : i \in {0, 1}}
    \cup {Bullet(i, b) : i \in {0, 2},
                         b \in {"/url: u", "/url: v", "/url: my page", "text: t"}}

NextAttr == ParseLine(AttrLines, MaxLinesAttr) \/ ParseReturn
SpecAttr == Init /\ [][NextAttr]_vars

\* inputs of the section runs: headings whose names contain "_" or equal
\* "noheading", headings whose names join to such a name, and an interactive node
SectionLines ==
  {Bullet(0, "heading \"a\""), Bullet(1, "heading \"b\""),
   Bullet(0, "heading \"a_b\""), Bullet(0, "heading \"noheading\"")}
    \cup {Bullet(i, "button [ref=e1]") : i \in {0, 1, 2}}

NextSection ==
  ParseLine(SectionLines, MaxLinesSection) \/ ParseReturn \/ BuildContextModel
SpecSection == Init /\ [][NextSection]_vars

-----------------------------------------------------------------------------
(* Tree helpers used by the properties *)

NodeIds == 1..Len(nodes)
ChildrenOf(nds, p) == nds[p].children

-----------------------------------------------------------------------------
(* C3: parent/child indentation and the root on the stack *)

\* C3: after parse_snapshot has processed any sequence of lines, every
\* parent/child edge has indent(child) > indent(parent), the synthetic root is
\* never popped from the open-node stack, and the stack is never empty when a
\* node is attached (stack[-1] never raises).
C3_ChildDeeperRootKept ==
  /\ pc # "IndexError"
  /\ Len(stack) >= 1
  /\ stack[1] = Root
  /\ nodes[Root].indent = -1
  /\ \A p \in NodeIds : \A k \in 1..Len(ChildrenOf(nodes, p)) :
       nodes[ChildrenOf(nodes, p)[k]].indent > nodes[p].indent

\* a line at indentation 0 closed an open top-level node and was attached to root
C3_Witness ==
  /\ Len(nodes[Root].children) >= 2
  /\ Len(stack) = 2
  /\ \E k \in 1..Len(nodes[Root].children) : nodes[nodes[Root].children[k]].indent = 0

-----------------------------------------------------------------------------
(* C4: indentation of siblings *)

\* C4 (as claimed): all children of the same parent have the same indentation.
C4_SiblingsSameIndent ==
  \A p \in NodeIds : \A j, k \in 1..Len(ChildrenOf(nodes, p)) :
    nodes[ChildrenOf(nodes, p)[j]].indent = nodes[ChildrenOf(nodes, p)[k]].indent

\* C4 (amended): the children of a parent have non-increasing indentation in
\* source order: a later child is never indented deeper than an earlier one.
C4_SiblingsNonIncreasing ==
  \A p \in NodeIds : \A j, k \in 1..Len(ChildrenOf(nodes, p)) :
    j < k => nodes[ChildrenOf(nodes, p)[k]].indent <= nodes[ChildrenOf(nodes, p)[j]].indent

\* a parent whose later child sits strictly between the parent's and an earlier
\* child's indentation
C4_Witness ==
  \E p \in NodeIds : \E j, k \in 1..Len(ChildrenOf(nodes, p)) :
    /\ j < k
    /\ nodes[p].indent < nodes[ChildrenOf(nodes, p)[k]].indent
    /\ nodes[ChildrenOf(nodes, p)[k]].indent < nodes[ChildrenOf(nodes, p)[j]].indent

-----------------------------------------------------------------------------
(* The tree as the properties see it: parents and ancestors read off the
   children lists, independently of ancestors_with_context *)

HasParent(id) == \E p \in NodeIds : \E k \in 1..Len(nodes[p].children) : nodes[p].children[k] = id
ParentOf(id) == CHOOSE p \in NodeIds : \E k \in 1..Len(nodes[p].children) : nodes[p].children[k] = id

\* the nearest proper ancestor of id with a role in `roles`, 0 if there is none
RECURSIVE NearestUp(_, _)
NearestUp(id, roles) ==
  IF ~HasParent(id) THEN 0
  ELSE IF nodes[ParentOf(id)].role \in roles THEN ParentOf(id)
  ELSE NearestUp(ParentOf(id), roles)

\* the ancestor-or-self of id that is a child of root (id must not be root)
RECURSIVE TopLevelOf(_)
TopLevelOf(id) == IF ParentOf(id) = Root THEN id ELSE TopLevelOf(ParentOf(id))

\* the interactive, ref-bearing nodes of the tree
InteractiveWithRef ==
  {id \in NodeIds : nodes[id].role \in INTERACTIVE_ROLES /\ nodes[id].ref # None /\ nodes[id].ref[1] # ""}

\* the places <<section, item, action>> of the Actions of a list of sections
ActionPlaces(sections) ==
  {pl \in (1..Len(sections)) \X (1..Len(nodes)) \X (1..Len(nodes)) :
     /\ pl[2] <= Len(sections[pl[1]].items)
     /\ pl[3] <= Len(sections[pl[1]].items[pl[2]].actions)}
ItemPlaces(sections) ==
  {pl \in (1..Len(sections)) \X (1..Len(nodes)) : pl[2] <= Len(sections[pl[1]].items)}

LogOf(id) == {k \in 1..Len(model.log) : model.log[k].node = id}

-----------------------------------------------------------------------------
(* C1: one Action per interactive node with a ref *)

\* C1: build_context_model produces exactly one Action per tree node with an
\* interactive role and a non-empty ref and no Action for any other node: the
\* node is recorded in exactly one Action (carrying its role, name, ref,
\* disabled flag and url), that Action is in exactly one Item's actions list,
\* and that Item is in exactly one Section's items list.
C1_OneActionPerInteractiveNode ==
  pc = "built" =>
    /\ Cardinality(ActionPlaces(model.sections)) = Cardinality(InteractiveWithRef)
    /\ \A k \in 1..Len(model.log) : model.log[k].node \in InteractiveWithRef
    /\ \A id \in InteractiveWithRef :
         /\ Cardinality(LogOf(id)) = 1
         /\ LET e == model.log[CHOOSE k \in LogOf(id) : TRUE]
                places == {pl \in ActionPlaces(model.sections) :
                             model.sections[pl[1]].items[pl[2]].actions[pl[3]].action_id
                               = e.action_id}
                items == {pl \in ItemPlaces(model.sections) :
                            model.sections[pl[1]].items[pl[2]].item_id = e.item_id}
            IN /\ Cardinality(places) = 1
               /\ Cardinality(items) = 1
               /\ \A pl \in places :
                    /\ <<pl[1], pl[2]>> \in items
                    /\ model.sections[pl[1]].section_id = e.section_id
                    /\ LET a == model.sections[pl[1]].items[pl[2]].actions[pl[3]]
                       IN /\ a.role = nodes[id].role
                          /\ a.ref = nodes[id].ref
                          /\ a.name = (IF nodes[id].name = None THEN "" ELSE nodes[id].name[1])
                          /\ a.disabled = nodes[id].disabled
                          /\ a.url = nodes[id].attrs.url

\* a built model with two Actions, beside an interactive node without a ref and a
\* non-interactive node with a ref, neither of which got an Action
C1_Witness ==
  /\ pc = "built"
  /\ Cardinality(InteractiveWithRef) >= 2
  /\ \E id \in NodeIds : nodes[id].role \in INTERACTIVE_ROLES /\ nodes[id].ref = None
  /\ \E id \in NodeIds : nodes[id].role \notin INTERACTIVE_ROLES /\ nodes[id].ref # None

-----------------------------------------------------------------------------
(* C2: one Item per container *)

\* C2 (as claimed): any two interactive ref-bearing nodes whose resolved
\* item-container node is the same node become Actions of the same single Item;
\* the same container node never yields two Items.
C2_SameContainerSameItem ==
  pc = "built" =>
    /\ \A j, k \in 1..Len(model.log) :
         model.log[j].container = model.log[k].container
           => model.log[j].item_id = model.log[k].item_id
    /\ \A j, k \in 1..Len(model.item_map) :
         model.item_map[j].key[2] = model.item_map[k].key[2] => j = k

\* C2 (amended): any two interactive ref-bearing nodes with the same resolved
\* item-container node and the same section_id become Actions of the same
\* single Item; the same container node never yields two Items in one section.
C2_SameContainerSameSectionSameItem ==
  pc = "built" =>
    /\ \A j, k \in 1..Len(model.log) :
         (/\ model.log[j].container = model.log[k].container
          /\ model.log[j].section_id = model.log[k].section_id)
           => model.log[j].item_id = model.log[k].item_id
    /\ \A j, k \in 1..Len(model.item_map) :
         model.item_map[j].key = model.item_map[k].key => j = k
    /\ \A pl, ql \in ItemPlaces(model.sections) :
         model.sections[pl[1]].items[pl[2]].item_id
           = model.sections[ql[1]].items[ql[2]].item_id => pl = ql

\* two nodes reach the same container by different paths (one is a child of the
\* container, the other lies deeper) and share one Item
C2_Witness ==
  /\ pc = "built"
  /\ \E j, k \in 1..Len(model.log) :
       /\ j # k
       /\ model.log[j].container = model.log[k].container
       /\ model.log[j].item_id = model.log[k].item_id
       /\ ParentOf(model.log[j].node) = model.log[j].container
       /\ ParentOf(model.log[k].node) # model.log[k].container

-----------------------------------------------------------------------------
(* C9: the item container *)

\* the container the amended chain names: the nearest row/listitem/group
\* ancestor, else the nearest landmark ancestor, else the immediate parent
ParentChain(id) ==
  IF NearestUp(id, REPEATER_ITEM_ROLES) # 0 THEN NearestUp(id, REPEATER_ITEM_ROLES)
  ELSE IF NearestUp(id, LANDMARK_ROLES) # 0 THEN NearestUp(id, LANDMARK_ROLES)
  ELSE ParentOf(id)

\* the container the claimed chain names: ..., else the top-level child of root
\* above the node, else root
TopLevelChain(id) ==
  IF NearestUp(id, REPEATER_ITEM_ROLES) # 0 THEN NearestUp(id, REPEATER_ITEM_ROLES)
  ELSE IF NearestUp(id, LANDMARK_ROLES) # 0 THEN NearestUp(id, LANDMARK_ROLES)
  ELSE IF ParentOf(id) # Root THEN TopLevelOf(ParentOf(id))
  ELSE Root

\* C9 (as claimed): the item container of every interactive ref-bearing node is
\* the nearest row/listitem/group ancestor; else the nearest landmark ancestor;
\* else the most distant ancestor in its chain, the top-level child of root
\* above it; else root itself.
C9_ContainerIsTopLevelAncestor ==
  pc = "built" =>
    \A k \in 1..Len(model.log) :
      model.log[k].container = TopLevelChain(model.log[k].node)

\* C9 (amended): the item container of every interactive ref-bearing node is
\* the nearest row/listitem/group ancestor; else the nearest landmark ancestor;
\* else the node's immediate parent, which is root for a top-level node.
C9_ContainerIsParent ==
  pc = "built" =>
    /\ \A id \in InteractiveWithRef : LogOf(id) # {}
    /\ \A k \in 1..Len(model.log) :
         model.log[k].container = ParentChain(model.log[k].node)

\* a node with neither a repeater nor a landmark above it whose parent is not a
\* child of root: the container is that parent
C9_Witness ==
  /\ pc = "built"
  /\ \E k \in 1..Len(model.log) :
       LET id == model.log[k].node
       IN /\ NearestUp(id, REPEATER_ITEM_ROLES \cup LANDMARK_ROLES) = 0
          /\ ParentOf(id) # Root
          /\ ParentOf(ParentOf(id)) # Root
          /\ model.log[k].container = ParentOf(id)

-----------------------------------------------------------------------------
(* C10: the salient text of a container *)

\* the first non-empty heading/link name in pre-order, None if there is none
RECURSIVE FirstName(_, _)
FirstName(order, k) ==
  IF k > Len(order) THEN None
  ELSE IF nodes[order[k]].role \in {"heading", "link"} /\ Truthy(nodes[order[k]].name)
    THEN Some(Prefix(nodes[order[k]].name[1], max_len))
  ELSE FirstName(order, k + 1)

\* the first non-empty joined texts attribute in pre-order, None if there is none
RECURSIVE FirstTexts(_, _)
FirstTexts(order, k) ==
  IF k > Len(order) THEN None
  ELSE IF Strip(Join(" ", nodes[order[k]].attrs.texts)) # ""
    THEN Some(Prefix(Strip(Join(" ", nodes[order[k]].attrs.texts)), max_len))
  ELSE FirstTexts(order, k + 1)

NamesBeforeTexts(container) ==
  LET order == iter_nodes(nodes, container)
  IN IF FirstName(order, 1) # None THEN FirstName(order, 1)[1]
     ELSE IF FirstTexts(order, 1) # None THEN FirstTexts(order, 1)[1]
     ELSE nodes[container].role \o ":"
            \o (IF Truthy(nodes[container].ref) THEN nodes[container].ref[1] ELSE "no-ref")

\* C10: first_salient_text(container), recorded as the item_key of the Item of
\* that container, is the first non-empty heading/link name of the pre-order
\* scan of the container's subtree whenever one exists anywhere in the subtree;
\* else the first non-empty joined texts attribute; else "<role>:<ref or no-ref>".
C10_NamesBeforeTexts ==
  pc = "built" =>
    \A k \in 1..Len(model.item_map) :
      model.sections[model.item_map[k].sec].items[model.item_map[k].pos].item_key
        = NamesBeforeTexts(model.item_map[k].key[2])

-----------------------------------------------------------------------------
(* C5, C6: the chunks of make_chunks *)

EndsWith(s, suffix) ==
  Len(s) >= Len(suffix) /\ SubSeq(s, Len(s) - Len(suffix) + 1, Len(s)) = suffix

\* the chunks that belong to the chunk root with 0-based index idx
ChunksOfRoot(idx) ==
  {k \in 1..Len(chunks) :
     \/ chunks[k].chunk_id = "ch" \o ToString(idx)
     \/ StartsWith(chunks[k].chunk_id, "ch" \o ToString(idx) \o "_")}

\* C5: make_chunks emits at least one chunk for every chunk-root node found by
\* find_chunk_roots, including a chunk-root that is over budget and has no
\* children.  Stated for the budgets of at least 1 (under a budget of 0 every
\* serialization is over budget).
C5_EveryChunkRootHasChunk ==
  (pc = "chunked" /\ budget >= 1) =>
    \A idx \in 0..(Len(find_chunk_roots(nodes)) - 1) : ChunksOfRoot(idx) # {}

\* C6: for every max_tokens_per_chunk >= 1 every chunk emitted is within budget,
\* estimate_tokens(chunk.text) <= max_tokens_per_chunk; a chunk whose id ends in
\* "_slice" is emitted only for a child of a chunk root whose serialization is
\* over budget, and its text has exactly max_tokens_per_chunk * 4 characters.
C6_ChunksWithinBudget ==
  (pc = "chunked" /\ budget >= 1) =>
    /\ \A k \in 1..Len(chunks) :
         Max(1, Len(chunks[k].text) \div 4) <= budget
    /\ \A k \in 1..Len(chunks) :
         EndsWith(chunks[k].chunk_id, "_slice") =>
           /\ Len(chunks[k].text) = budget * 4
           /\ \E idx \in 0..(Len(find_chunk_roots(nodes)) - 1) :
                LET cr == find_chunk_roots(nodes)[idx + 1]
                IN \E j \in 0..(Len(nodes[cr].children) - 1) :
                     /\ chunks[k].chunk_id
                          = "ch" \o ToString(idx) \o "_" \o ToString(j) \o "_slice"
                     /\ Len(serialize_subtree(nodes, nodes[cr].children[j + 1])) \div 4
                          > budget

\* a sliced chunk beside a whole child chunk, under a budget of at least 1
C6_Witness ==
  /\ pc = "chunked"
  /\ budget >= 1
  /\ \E k \in 1..Len(chunks) : EndsWith(chunks[k].chunk_id, "_slice")
  /\ \E k \in 1..Len(chunks) :
       ~EndsWith(chunks[k].chunk_id, "_slice") /\ chunks[k].chunk_id # "ch0"

-----------------------------------------------------------------------------
(* C7, C8: trim_for_llm *)

Min(a, b) == IF a <= b THEN a ELSE b
PosOf(ids, id) == CHOOSE i \in 1..Len(ids) : ids[i] = id
Elems(q) == {q[i] : i \in 1..Len(q)}

\* a pass from a list with identifiers inIds and scores inScores (by position)
\* to the list with identifiers outIds kept exactly the first max_n elements of
\* the stable descending-score ordering
PassKeepsTop(inIds, inScores, outIds, max_n) ==
  LET score(id) == inScores[PosOf(inIds, id)]
  IN /\ Len(outIds) = Min(max_n, Len(inIds))
     /\ Elems(outIds) \subseteq Elems(inIds)
     /\ \A i, j \in 1..Len(outIds) :
          i < j => /\ outIds[i] # outIds[j]
                   /\ score(outIds[i]) >= score(outIds[j])
                   /\ (score(outIds[i]) = score(outIds[j])
                         => PosOf(inIds, outIds[i]) < PosOf(inIds, outIds[j]))
     /\ \A d \in Elems(inIds) \ Elems(outIds) : \A i \in 1..Len(outIds) :
          /\ score(d) <= score(outIds[i])
          /\ (score(d) = score(outIds[i]) => PosOf(inIds, outIds[i]) < PosOf(inIds, d))

\* the keyword score as the claim states it: the number of distinct lower-cased
\* alphanumeric words of the task, longer than 2, that occur in the lower-cased text
KwScore(text) == Cardinality({k \in Keywords(task) : Contains(lower(text), k)})

SectionById(section_id) ==
  model.sections[CHOOSE i \in 1..Len(model.sections) :
                   model.sections[i].section_id = section_id]
ItemById(sec, item_id) ==
  sec.items[CHOOSE i \in 1..Len(sec.items) : sec.items[i].item_id = item_id]

\* C7: trim_for_llm is idempotent: applying it with the same task and limits to
\* its own result returns the same sections, items and actions in the same order.
C7_TrimIdempotent ==
  pc = "trimmed" =>
    trim_for_llm(trimmed, task, limits[1], limits[2], limits[3]) = trimmed

\* the trim reordered two Actions of an Item and kept both
C7_Witness ==
  /\ pc = "trimmed"
  /\ \E s \in 1..Len(trimmed) : \E i \in 1..Len(trimmed[s].items) :
       LET it == trimmed[s].items[i]
       IN /\ Len(it.actions) = 2
          /\ it.actions[1].action_id = it.item_id \o "/a1"
          /\ it.actions[2].action_id = it.item_id \o "/a0"

\* C8: each of the three passes (sections by heading_path, items by item_key,
\* actions by name and url) keeps exactly the first max_n elements of a stable
\* descending-score ordering: scores are non-increasing in the output, elements
\* of equal score keep their original relative order, and no dropped element
\* has a strictly higher score than a kept element of the same list.
C8_PassesKeepTopStable ==
  pc = "trimmed" =>
    /\ PassKeepsTop([i \in 1..Len(model.sections) |-> model.sections[i].section_id],
                    [i \in 1..Len(model.sections) |->
                       KwScore(Join(" ", model.sections[i].heading_path))],
                    [i \in 1..Len(trimmed) |-> trimmed[i].section_id],
                    limits[1])
    /\ \A s \in 1..Len(trimmed) :
         LET sec == SectionById(trimmed[s].section_id)
         IN /\ PassKeepsTop([i \in 1..Len(sec.items) |-> sec.items[i].item_id],
                            [i \in 1..Len(sec.items) |-> KwScore(sec.items[i].item_key)],
                            [i \in 1..Len(trimmed[s].items) |-> trimmed[s].items[i].item_id],
                            limits[2])
            /\ \A t \in 1..Len(trimmed[s].items) :
                 LET it == ItemById(sec, trimmed[s].items[t].item_id)
                     out == trimmed[s].items[t].actions
                 IN PassKeepsTop(
                      [i \in 1..Len(it.actions) |-> it.actions[i].action_id],
                      [i \in 1..Len(it.actions) |->
                         KwScore(it.actions[i].name \o " "
                                   \o (IF it.actions[i].url = None THEN ""
                                       ELSE it.actions[i].url[1]))],
                      [i \in 1..Len(out) |-> out[i].action_id],
                      limits[3])

\* the section pass dropped the first section of the model and kept a later,
\* higher-scored one
C8_Witness ==
  /\ pc = "trimmed"
  /\ Len(trimmed) >= 1
  /\ Len(trimmed) < Len(model.sections)
  /\ trimmed[1].section_id # model.sections[1].section_id
  /\ model.sections[1].section_id \notin {trimmed[i].section_id : i \in 1..Len(trimmed)}

-----------------------------------------------------------------------------
(* C11: attribute lines *)

\* the stripped body of a bulleted line, "" for a line without a bullet
BodyOf(line) == IF LINE_RE(line) = None THEN "" ELSE Strip(LINE_RE(line)[1].body)

\* a bulleted line whose body reads "/url: <value>" or "text: <value>"
IsUrlLine(line) == StartsWith(BodyOf(line), "/url: ")
IsTextLine(line) == StartsWith(BodyOf(line), "text: ")
ValueOf(line) == Strip(From(BodyOf(line), 6))

\* C11: a bulleted line whose body has the form "/url: <value>" or
\* "text: <value>" never creates a node and never changes the open-node stack
\* or any parent/child link: it only sets the url attribute (last one wins) or
\* appends to the texts list of the node on top of the stack, whatever the
\* line's own indentation and whatever the value is.
C11_AttributeLinesOnlySetAttrs ==
  [][\A line \in AttrLines :
       (/\ IsUrlLine(line) \/ IsTextLine(line)
        /\ pc = "parsing"
        /\ nlines' = nlines + 1
        /\ nodes' = ParseStep(nodes, stack, line).nodes
        /\ stack' = ParseStep(nodes, stack, line).stack)
         => /\ Len(nodes') = Len(nodes)
            /\ stack' = stack
            /\ \A id \in 1..Len(nodes) :
                 /\ nodes'[id].children = nodes[id].children
                 /\ id # Top(stack) => nodes'[id] = nodes[id]
            /\ IsUrlLine(line) =>
                 nodes' = [nodes EXCEPT ![Top(stack)].attrs.url = <<ValueOf(line)>>]
            /\ IsTextLine(line) =>
                 nodes' = [nodes EXCEPT ![Top(stack)].attrs.texts = Append(@, ValueOf(line))]
    ]_vars

-----------------------------------------------------------------------------
(* C12: the landmark and heading path of a Section *)

\* the names of the named heading ancestors of id, most distant first
RECURSIVE HeadingsAbove(_)
HeadingsAbove(id) ==
  IF ~HasParent(id) THEN <<>>
  ELSE HeadingsAbove(ParentOf(id))
         \o (IF /\ nodes[ParentOf(id)].role = "heading"
                /\ nodes[ParentOf(id)].name # None
                /\ nodes[ParentOf(id)].name[1] # ""
               THEN <<nodes[ParentOf(id)].name[1]>> ELSE <<>>)

\* the (landmark, heading path) pair of a node: the role of its nearest landmark
\* ancestor ("unknown" without one) and its last 3 named heading ancestors
LandmarkOf(id) ==
  IF NearestUp(id, {"main", "navigation", "contentinfo"}) = 0 THEN "unknown"
  ELSE nodes[NearestUp(id, {"main", "navigation", "contentinfo"})].role
HeadingPathOf(id) ==
  LET hs == HeadingsAbove(id)
  IN IF Len(hs) <= 3 THEN hs ELSE SubSeq(hs, Len(hs) - 2, Len(hs))

\* the Section that holds the Action the loop appended for log entry k
SectionOfEntry(k) ==
  model.sections[CHOOSE s \in 1..Len(model.sections) :
                   \E pl \in ActionPlaces(model.sections) :
                     /\ pl[1] = s
                     /\ model.sections[s].items[pl[2]].actions[pl[3]].action_id
                          = model.log[k].action_id]

\* C12: in every model built by build_context_model, each Section's recorded
\* landmark and heading_path equal the nearest-landmark role and the heading
\* path (last 3 named heading ancestors) of every node whose Action is in that
\* Section, including when heading names contain "_" or equal "noheading".
C12_SectionMatchesItsNodes ==
  pc = "built" =>
    \A k \in 1..Len(model.log) :
      /\ SectionOfEntry(k).landmark = LandmarkOf(model.log[k].node)
      /\ SectionOfEntry(k).heading_path = HeadingPathOf(model.log[k].node)

\* the same statement for the trees without a heading named "noheading"
C12_SectionMatchesItsNodes_Underscore ==
  (\A id \in NodeIds : nodes[id].name # <<"noheading">>) => C12_SectionMatchesItsNodes

====
